---- MODULE Spec2Model ----
(***************************************************************************)
(* A model of the donut object-storage driver (MakeBucket, PutObject,     *)
(* GetObject, GetObjectMetadata, ListObjects, SetBucketMetadata) and of    *)
(* the object handlers of the S3 front-end.                                *)
(*                                                                         *)
(* Names are Go strings: finite sequences of bytes, compared in byte       *)
(* order.  32 is the space, 47 is "/", 97 and 98 are "a" and "b".          *)
(***************************************************************************)
EXTENDS Integers, Sequences, FiniteSets, TLC

VARIABLES buckets, bucketMetadata, objects, req, acked, resp, listReq, uploads

vars == <<buckets, bucketMetadata, objects, req, acked, resp, listReq, uploads>>

----------------------------------------------------------------------------
(* Bounds of the model *)

\* most objects a listed bucket holds
MaxObjects == 2
\* largest maxkeys argument tried (the smallest is 0, which is the default)
MaxKeysArg == 1

----------------------------------------------------------------------------
(* Byte strings *)

Alphabet == {32, 47, 97, 98}

Empty == << >>

RECURSIVE StringsUpTo(_)
StringsUpTo(n) ==
    IF n = 0 THEN {Empty}
    ELSE LET shorter == StringsUpTo(n - 1)
         IN  shorter \cup {Append(s, c) : s \in shorter, c \in Alphabet}

\* Go's < on strings: byte-wise lexicographic order
RECURSIVE StrLess(_, _)
StrLess(a, b) ==
    IF a = Empty THEN b # Empty
    ELSE IF b = Empty THEN FALSE
    ELSE IF Head(a) = Head(b) THEN StrLess(Tail(a), Tail(b))
    ELSE Head(a) < Head(b)

StrGreater(a, b) == StrLess(b, a)

\* strings.TrimSpace: leading and trailing white space removed
RECURSIVE TrimLeft(_)
TrimLeft(s) ==
    IF s # Empty /\ Head(s) = 32 THEN TrimLeft(Tail(s)) ELSE s

RECURSIVE TrimRight(_)
TrimRight(s) ==
    IF s # Empty /\ s[Len(s)] = 32 THEN TrimRight(SubSeq(s, 1, Len(s) - 1)) ELSE s

TrimSpace(s) == TrimRight(TrimLeft(s))

\* strings.HasPrefix
HasPrefix(s, p) == Len(s) >= Len(p) /\ SubSeq(s, 1, Len(p)) = p

\* strings.TrimPrefix
TrimPrefix(s, p) == IF HasPrefix(s, p) THEN SubSeq(s, Len(p) + 1, Len(s)) ELSE s

\* strings.Index: the first position (from 1) where d occurs in s, 0 if none
IndexOf(s, d) ==
    LET hits == {i \in 1..(Len(s) - Len(d) + 1) : SubSeq(s, i, i + Len(d) - 1) = d}
    IN  IF hits = {} THEN 0 ELSE CHOOSE i \in hits : \A j \in hits : i <= j

\* strings.Contains
Contains(s, d) == IndexOf(s, d) # 0

\* the elements of a sequence
Range(seq) == {seq[i] : i \in 1..Len(seq)}

\* sort.Strings: ascending byte order (insertion sort)
RECURSIVE Insert(_, _)
Insert(sorted, s) ==
    IF sorted = << >> THEN <<s>>
    ELSE IF StrLess(s, Head(sorted)) THEN <<s>> \o sorted
    ELSE <<Head(sorted)>> \o Insert(Tail(sorted), s)

RECURSIVE SortStrings(_)
SortStrings(list) ==
    IF list = << >> THEN << >>
    ELSE Insert(SortStrings(SubSeq(list, 1, Len(list) - 1)), list[Len(list)])

----------------------------------------------------------------------------
(* String-list utilities of the driver *)

filterPrefix(list, p) == SelectSeq(list, LAMBDA s : HasPrefix(s, p))

removePrefix(list, p) == [i \in 1..Len(list) |-> TrimPrefix(list[i], p)]

filterDelimited(list, d) == SelectSeq(list, LAMBDA s : ~Contains(s, d))

filterNotDelimited(list, d) == SelectSeq(list, LAMBDA s : Contains(s, d))

extractDir(list, d) ==
    [i \in 1..Len(list) |-> SubSeq(list[i], 1, IndexOf(list[i], d) - 1) \o d]

appendUniq(list, s) == IF s \in Range(list) THEN list ELSE Append(list, s)

RECURSIVE uniqueObjects(_)
uniqueObjects(list) ==
    IF list = << >> THEN << >>
    ELSE appendUniq(uniqueObjects(SubSeq(list, 1, Len(list) - 1)), list[Len(list)])

----------------------------------------------------------------------------
(* donut.ListObjects *)

DefaultMaxKeys == 1000

\* the maxkeys in force: a value <= 0 stands for the default
effectiveMaxKeys(maxkeys) == IF maxkeys <= 0 THEN DefaultMaxKeys ELSE maxkeys

\* the names left after the prefix test, with the prefix stripped
stripPrefix(donutObjects, prefix) ==
    IF TrimSpace(prefix) # Empty
    THEN removePrefix(filterPrefix(donutObjects, prefix), prefix)
    ELSE donutObjects

\* the split by delimiter: the names listed as objects
splitObjects(donutObjects, delimiter) ==
    IF TrimSpace(delimiter) # Empty
    THEN filterDelimited(donutObjects, delimiter)
    ELSE donutObjects

\* the split by delimiter: the directories of the names holding the delimiter
splitPrefixes(donutObjects, delimiter) ==
    IF TrimSpace(delimiter) # Empty
    THEN uniqueObjects(extractDir(filterNotDelimited(donutObjects, delimiter), delimiter))
    ELSE << >>

\* the marker filter over the sorted names
markerFilter(actualObjects, marker) ==
    IF marker # Empty
    THEN SelectSeq(actualObjects, LAMBDA objectName : StrGreater(objectName, marker))
    ELSE actualObjects

\* the walk with the bound tested by > in place of >=
RECURSIVE walkFromLate(_, _, _, _)
walkFromLate(newActualObjects, prefix, maxkeys, results) ==
    IF newActualObjects = << >> THEN [results |-> results, isTruncated |-> FALSE]
    ELSE IF Len(results) > maxkeys THEN [results |-> results, isTruncated |-> TRUE]
    ELSE walkFromLate(Tail(newActualObjects), prefix, maxkeys,
                      appendUniq(results, prefix \o Head(newActualObjects)))

\* the walk that raises isTruncated as soon as results holds maxkeys entries
RECURSIVE walkFromEager(_, _, _, _)
walkFromEager(newActualObjects, prefix, maxkeys, results) ==
    IF Len(results) >= maxkeys THEN [results |-> results, isTruncated |-> TRUE]
    ELSE IF newActualObjects = << >> THEN [results |-> results, isTruncated |-> FALSE]
    ELSE walkFromEager(Tail(newActualObjects), prefix, maxkeys,
                       appendUniq(results, prefix \o Head(newActualObjects)))

\* the walk that appends the names without the prefix
RECURSIVE walkFromBare(_, _, _, _)
walkFromBare(newActualObjects, prefix, maxkeys, results) ==
    IF newActualObjects = << >> THEN [results |-> results, isTruncated |-> FALSE]
    ELSE IF Len(results) >= maxkeys THEN [results |-> results, isTruncated |-> TRUE]
    ELSE walkFromBare(Tail(newActualObjects), prefix, maxkeys,
                      appendUniq(results, Head(newActualObjects)))

\* the walk that fills results, up to maxkeys entries
RECURSIVE walkFrom(_, _, _, _)
walkFrom(newActualObjects, prefix, maxkeys, results) ==
    IF newActualObjects = << >> THEN [results |-> results, isTruncated |-> FALSE]
    ELSE IF Len(results) >= maxkeys THEN [results |-> results, isTruncated |-> TRUE]
    ELSE walkFrom(Tail(newActualObjects), prefix, maxkeys,
                  appendUniq(results, prefix \o Head(newActualObjects)))

walkResults(newActualObjects, prefix, maxkeys) ==
    walkFrom(newActualObjects, prefix, maxkeys, << >>)

\* the loop that re-prepends the prefix to the common prefixes
RECURSIVE prependPrefixes(_, _)
prependPrefixes(actualPrefixes, prefix) ==
    IF actualPrefixes = << >> THEN << >>
    ELSE appendUniq(prependPrefixes(SubSeq(actualPrefixes, 1, Len(actualPrefixes) - 1), prefix),
                    prefix \o actualPrefixes[Len(actualPrefixes)])

\* ListObjects on a bucket that exists; objectNames is the bucket's object
\* list in the order the map iteration yields it
listNames(objectNames, prefix, marker, delimiter, maxkeys) ==
    LET donutObjects   == stripPrefix(objectNames, prefix)
        actualObjects  == SortStrings(splitObjects(donutObjects, delimiter))
        actualPrefixes == splitPrefixes(donutObjects, delimiter)
        walked         == walkResults(markerFilter(actualObjects, marker), prefix,
                                      effectiveMaxKeys(maxkeys))
    IN  [keys        |-> SortStrings(walked.results),
         prefixes    |-> SortStrings(prependPrefixes(actualPrefixes, prefix)),
         isTruncated |-> walked.isTruncated,
         err         |-> "nil"]

\* every order in which a map iteration can yield the set S
RECURSIVE Orders(_)
Orders(S) ==
    IF S = {} THEN {<< >>}
    ELSE UNION {{<<x>> \o o : o \in Orders(S \ {x})} : x \in S}

ListObjects(bucket, objectNames, prefix, marker, delimiter, maxkeys) ==
    IF bucket \notin buckets
    THEN [keys |-> << >>, prefixes |-> << >>, isTruncated |-> FALSE,
          err |-> "BucketNotFound"]
    ELSE listNames(objectNames, prefix, marker, delimiter, maxkeys)

----------------------------------------------------------------------------
(* The store and the requests in flight *)

\* bucket names a request can carry: "x", "y" and a blank name
BucketNames == {<<120>>, <<121>>, <<32>>}

\* bucket names the MakeBucket requests carry: "y" is never made
MakeNames == {<<120>>, <<32>>}

\* object names the put requests carry: "a", "b" and a blank name
PutNames == {<<97>>, <<98>>, <<32>>}

\* request bodies
Payloads == {<<1>>, <<2, 1>>}

\* the status of the NotImplemented error code
NotImplementedStatus == 501

Acls == {"private", "public-read"}

\* the request handlers that run in parallel
Procs == {1, 2}

\* the hex MD5 of a byte sequence, taken to be free of collisions
MD5Hex(data) == <<"md5", data>>

\* the Content-MD5 values a request can carry: none, or the sum of a payload
ExpectedSums == {Empty, MD5Hex(<<1>>)}

Blank(s) == s = Empty \/ TrimSpace(s) = Empty

NoObjects == [n \in {} |-> 0]

IdleReq == [pc |-> "idle"]

\* the upload identifiers the multipart coordinator hands out, in the order
\* it hands them out
UploadIDs == <<"u1", "u2">>

\* the multipart upload table before any upload was started
NoUploads == [id \in Range(UploadIDs) |-> [state |-> "Free"]]

\* bucket.ListObjects: the object list of a bucket that exists
objectList(bucket) == objects[bucket]

\* bucket.PutObject that keeps the entry of a payload whose digest differs
bucketPutObjectNoRollback(index, object, data, expectedMD5Sum, streamed) ==
    IF ~streamed THEN [err |-> "IOError", md5sum |-> Empty, index |-> index]
    ELSE IF expectedMD5Sum # Empty /\ expectedMD5Sum # MD5Hex(data)
    THEN [err |-> "BadDigest", md5sum |-> Empty,
          index |-> (object :> [data |-> data, md5 |-> MD5Hex(data), size |-> Len(data)])
                    @@ index]
    ELSE [err |-> "nil", md5sum |-> MD5Hex(data),
          index |-> (object :> [data |-> data, md5 |-> MD5Hex(data), size |-> Len(data)])
                    @@ index]

\* bucket.PutObject: the payload is streamed to the byte store and summed;
\* a failed stream or a digest mismatch leaves no entry, success writes one
bucketPutObject(index, object, data, expectedMD5Sum, streamed) ==
    IF ~streamed THEN [err |-> "IOError", md5sum |-> Empty, index |-> index]
    ELSE IF expectedMD5Sum # Empty /\ expectedMD5Sum # MD5Hex(data)
    THEN [err |-> "BadDigest", md5sum |-> Empty, index |-> index]
    ELSE [err |-> "nil", md5sum |-> MD5Hex(data),
          index |-> (object :> [data |-> data, md5 |-> MD5Hex(data), size |-> Len(data)])
                    @@ index]

\* donut.PutObject without the test of the object list
putObjectCheckNoExists(bucket, object) ==
    IF Blank(bucket) THEN "InvalidArgument"
    ELSE IF Blank(object) THEN "InvalidArgument"
    ELSE IF bucket \notin buckets THEN "BucketNotFound"
    ELSE "nil"

\* donut.PutObject up to the existence test: the error it returns, "nil"
\* when the call goes on to the bucket's write
putObjectCheck(bucket, object) ==
    IF Blank(bucket) THEN "InvalidArgument"
    ELSE IF Blank(object) THEN "InvalidArgument"
    ELSE IF bucket \notin buckets THEN "BucketNotFound"
    ELSE IF \E objectName \in DOMAIN objectList(bucket) : objectName = object
    THEN "ObjectExists"
    ELSE "nil"

\* donut.GetObject
GetObject(bucket, object) ==
    IF Blank(bucket) THEN [err |-> "InvalidArgument"]
    ELSE IF Blank(object) THEN [err |-> "InvalidArgument"]
    ELSE IF bucket \notin buckets THEN [err |-> "BucketNotFound"]
    ELSE IF \E objectName \in DOMAIN objectList(bucket) : objectName = object
    THEN [err |-> "nil", data |-> objectList(bucket)[object].data,
          size |-> objectList(bucket)[object].size]
    ELSE [err |-> "ObjectNotFound"]

\* donut.GetObjectMetadata
GetObjectMetadata(bucket, object) ==
    IF bucket \notin buckets THEN [err |-> "BucketNotFound"]
    ELSE IF object \notin DOMAIN objectList(bucket) THEN [err |-> "ObjectNotFound"]
    ELSE [err |-> "nil", md5 |-> objectList(bucket)[object].md5,
          size |-> objectList(bucket)[object].size]

Init ==
    /\ buckets = {}
    /\ bucketMetadata = [b \in {} |-> 0]
    /\ objects = [b \in BucketNames |-> NoObjects]
    /\ req = [p \in Procs |-> IdleReq]
    /\ acked = {}
    /\ resp = [op |-> "none"]
    /\ listReq = [pc |-> "none"]
    /\ uploads = NoUploads

----------------------------------------------------------------------------
(* The operations *)

\* the outcomes of the store's reads during one call: both succeed, the
\* load of the buckets fails, or the read of the bucket metadata fails
IoOutcomes == {"ok", "loadFails", "readFails"}

\* getDonutBuckets: the error of the load of the buckets
getDonutBuckets(io) == IF io = "loadFails" THEN "LoadError" ELSE "nil"

\* getDonutBucketMetadata: the metadata of all buckets; the read fails on a
\* store in which no bucket was ever made
getDonutBucketMetadata(io) ==
    IF io = "readFails" \/ buckets = {}
    THEN [err |-> "MetadataReadError"]
    ELSE [err |-> "nil", metadata |-> bucketMetadata]

\* a Go map read: the zero value "" for a key that is not there
mapGet(m, k) == IF k \in DOMAIN m THEN m[k] ELSE ""

\* the metadata a new bucket gets: its acl and its creation time
newBucketMetadata(acl) == [acl |-> acl, created |-> "t0"]

\* makeDonutBucket: a bucket is made once
makeDonutBucketErr(bucket) == IF bucket \in buckets THEN "BucketExists" ELSE "nil"

\* donut.MakeBucket
MakeBucket(bucket, acl) ==
    /\ IF Blank(bucket)
       THEN /\ resp' = [op |-> "MakeBucket", err |-> "InvalidArgument"]
            /\ UNCHANGED <<buckets, bucketMetadata>>
       ELSE IF makeDonutBucketErr(bucket) # "nil"
       THEN /\ resp' = [op |-> "MakeBucket", err |-> "BucketExists"]
            /\ UNCHANGED <<buckets, bucketMetadata>>
       ELSE /\ buckets' = buckets \cup {bucket}
            /\ bucketMetadata' = (bucket :> newBucketMetadata(acl)) @@ bucketMetadata
            /\ resp' = [op |-> "MakeBucket", err |-> "nil"]
    /\ UNCHANGED <<objects, req, acked, listReq, uploads>>

\* donut.SetBucketMetadata without the TODO of line 63: the whole input replaces
\* the bucket's metadata
SetBucketMetadataWhole(bucket, metadata, io) ==
    /\ IF getDonutBuckets(io) # "nil"
       THEN /\ resp' = [op |-> "SetBucketMetadata", bucket |-> bucket,
                        metadata |-> metadata, io |-> io, err |-> getDonutBuckets(io)]
            /\ UNCHANGED bucketMetadata
       ELSE IF getDonutBucketMetadata(io).err # "nil"
       THEN /\ resp' = [op |-> "SetBucketMetadata", bucket |-> bucket,
                        metadata |-> metadata, io |-> io,
                        err |-> getDonutBucketMetadata(io).err]
            /\ UNCHANGED bucketMetadata
       ELSE IF bucket \notin DOMAIN getDonutBucketMetadata(io).metadata
       THEN /\ resp' = [op |-> "SetBucketMetadata", bucket |-> bucket,
                        metadata |-> metadata, io |-> io, err |-> "panic"]
            /\ UNCHANGED bucketMetadata
       ELSE /\ bucketMetadata' = [bucketMetadata EXCEPT ![bucket] = metadata]
            /\ resp' = [op |-> "SetBucketMetadata", bucket |-> bucket,
                        metadata |-> metadata, io |-> io, err |-> "nil"]
    /\ UNCHANGED <<buckets, objects, req, acked, listReq, uploads>>

\* donut.SetBucketMetadata: only the "acl" entry of the bucket's metadata is
\* written, with the input's "acl" entry ("" when the input has none). The
\* map read for a bucket that is not there is nil, and the write into a nil
\* map panics; the write of the metadata to the store is taken to succeed
SetBucketMetadata(bucket, metadata, io) ==
    /\ IF getDonutBuckets(io) # "nil"
       THEN /\ resp' = [op |-> "SetBucketMetadata", bucket |-> bucket,
                        metadata |-> metadata, io |-> io, err |-> getDonutBuckets(io)]
            /\ UNCHANGED bucketMetadata
       ELSE IF getDonutBucketMetadata(io).err # "nil"
       THEN /\ resp' = [op |-> "SetBucketMetadata", bucket |-> bucket,
                        metadata |-> metadata, io |-> io,
                        err |-> getDonutBucketMetadata(io).err]
            /\ UNCHANGED bucketMetadata
       ELSE IF bucket \notin DOMAIN getDonutBucketMetadata(io).metadata
       THEN /\ resp' = [op |-> "SetBucketMetadata", bucket |-> bucket,
                        metadata |-> metadata, io |-> io, err |-> "panic"]
            /\ UNCHANGED bucketMetadata
       ELSE /\ bucketMetadata' =
                   [bucketMetadata EXCEPT ![bucket] =
                       [k \in DOMAIN @ \cup {"acl"} |->
                           IF k = "acl" THEN mapGet(metadata, "acl") ELSE @[k]]]
            /\ resp' = [op |-> "SetBucketMetadata", bucket |-> bucket,
                        metadata |-> metadata, io |-> io, err |-> "nil"]
    /\ UNCHANGED <<buckets, objects, req, acked, listReq, uploads>>

\* donut.PutObject, from its entry to the existence test on the object list
PutObjectCheck(p, bucket, object, expectedMD5Sum, data) ==
    /\ req[p].pc \in {"idle", "done"}
    /\ LET err == putObjectCheck(bucket, object)
       IN  req' = [req EXCEPT ![p] =
                     IF err = "nil"
                     THEN [pc |-> "write", bucket |-> bucket, object |-> object,
                           expectedMD5Sum |-> expectedMD5Sum, data |-> data]
                     ELSE [pc |-> "done", bucket |-> bucket, object |-> object,
                           err |-> err, md5sum |-> Empty, wrote |-> FALSE]]
    /\ UNCHANGED <<buckets, bucketMetadata, objects, acked, resp, listReq, uploads>>

\* donut.PutObject, the bucket's write and the return
PutObjectWrite(p, streamed) ==
    /\ req[p].pc = "write"
    /\ LET r   == req[p]
           put == bucketPutObject(objectList(r.bucket), r.object, r.data,
                                  r.expectedMD5Sum, streamed)
       IN  /\ objects' = [objects EXCEPT ![r.bucket] = put.index]
           /\ req' = [req EXCEPT ![p] =
                        [pc |-> "done", bucket |-> r.bucket, object |-> r.object,
                         err |-> put.err, md5sum |-> put.md5sum, wrote |-> TRUE]]
           /\ acked' = IF put.err = "nil"
                       THEN acked \cup {<<r.bucket, r.object, put.md5sum>>}
                       ELSE acked
    /\ UNCHANGED <<buckets, bucketMetadata, resp, listReq, uploads>>

\* deleteBucketHandler
DeleteBucket(bucket) ==
    /\ resp' = [op |-> "DeleteBucket", status |-> NotImplementedStatus]
    /\ UNCHANGED <<buckets, bucketMetadata, objects, req, acked, listReq, uploads>>

\* deleteObjectHandler
DeleteObject(bucket, object) ==
    /\ resp' = [op |-> "DeleteObject", status |-> NotImplementedStatus]
    /\ UNCHANGED <<buckets, bucketMetadata, objects, req, acked, listReq, uploads>>

Next ==
    \/ \E bucket \in MakeNames, acl \in Acls : MakeBucket(bucket, acl)
    \/ \E bucket \in MakeNames : SetBucketMetadata(bucket, [acl |-> "public-read"], "ok")
    \/ \E p \in Procs, bucket \in BucketNames, object \in PutNames,
          expectedMD5Sum \in ExpectedSums, data \in Payloads :
          PutObjectCheck(p, bucket, object, expectedMD5Sum, data)
    \/ \E p \in Procs, streamed \in BOOLEAN : PutObjectWrite(p, streamed)
    \/ \E bucket \in BucketNames : DeleteBucket(bucket)
    \/ \E bucket \in BucketNames, object \in PutNames : DeleteObject(bucket, object)

Spec == Init /\ [][Next]_vars

----------------------------------------------------------------------------
(* The bucket methods of the driver, with reads of the store that can fail *)

\* the metadata maps SetBucketMetadata is called with: an acl alone, an acl
\* with another key, and another key without an acl
MetadataInputs ==
    {[acl |-> "public-read"], [acl |-> "private", created |-> "t9"], [created |-> "t9"]}

\* a Go map of buckets with no entry
NoBuckets == [b \in {} |-> 0]

\* donut.GetBucketMetadata
GetBucketMetadata(bucket, io) ==
    IF getDonutBuckets(io) # "nil" THEN [err |-> getDonutBuckets(io)]
    ELSE IF bucket \notin buckets THEN [err |-> "BucketNotFound"]
    ELSE IF getDonutBucketMetadata(io).err # "nil"
    THEN [err |-> getDonutBucketMetadata(io).err]
    ELSE [err |-> "nil", metadata |-> getDonutBucketMetadata(io).metadata[bucket]]

\* donut.ListBuckets that passes on the error of the metadata read
ListBucketsStrict(io) ==
    IF getDonutBuckets(io) # "nil" THEN [err |-> getDonutBuckets(io)]
    ELSE IF getDonutBucketMetadata(io).err # "nil"
    THEN [err |-> getDonutBucketMetadata(io).err]
    ELSE [err |-> "nil", metadata |-> getDonutBucketMetadata(io).metadata]

\* donut.ListBuckets: the error of the load of the buckets is returned, the
\* error of the metadata read is dropped and an empty map returned
ListBuckets(io) ==
    IF getDonutBuckets(io) # "nil" THEN [err |-> getDonutBuckets(io)]
    ELSE IF getDonutBucketMetadata(io).err # "nil"
    THEN [err |-> "nil", metadata |-> NoBuckets]
    ELSE [err |-> "nil", metadata |-> getDonutBucketMetadata(io).metadata]

GetBucketMetadataCall(bucket, io) ==
    /\ resp' = [op |-> "GetBucketMetadata", bucket |-> bucket, io |-> io,
                result |-> GetBucketMetadata(bucket, io)]
    /\ UNCHANGED <<buckets, bucketMetadata, objects, req, acked, listReq, uploads>>

ListBucketsCall(io) ==
    /\ resp' = [op |-> "ListBuckets", io |-> io, result |-> ListBuckets(io)]
    /\ UNCHANGED <<buckets, bucketMetadata, objects, req, acked, listReq, uploads>>

BucketNext ==
    \/ \E bucket \in BucketNames, acl \in Acls : MakeBucket(bucket, acl)
    \/ \E bucket \in BucketNames, metadata \in MetadataInputs, io \in IoOutcomes :
          SetBucketMetadata(bucket, metadata, io)
    \/ \E bucket \in BucketNames, io \in IoOutcomes : GetBucketMetadataCall(bucket, io)
    \/ \E io \in IoOutcomes : ListBucketsCall(io)
    \/ \E bucket \in BucketNames : PutObjectCheck(1, bucket, <<97>>, Empty, <<1>>)
    \/ PutObjectWrite(1, TRUE)

BucketSpec == Init /\ [][BucketNext]_vars

----------------------------------------------------------------------------
(* Request headers and the helpers of the handlers *)

\* the largest object size the handlers accept, scaled down from 5 GiB
MaxObjectSize == 5

\* a string is a decimal numeral when it is a non-empty run of the digits
\* "0" (48) to "9" (57)
IsDigits(s) == Len(s) > 0 /\ \A i \in 1..Len(s) : s[i] \in 48..57

RECURSIVE DecimalValue(_)
DecimalValue(s) ==
    IF s = Empty THEN 0
    ELSE 10 * DecimalValue(SubSeq(s, 1, Len(s) - 1)) + (s[Len(s)] - 48)

\* strconv.ParseInt(s, 10, 64) and strconv.Atoi(s) on an unsigned numeral:
\* the value is 0 when the string is no numeral
ParseInt(s) ==
    IF IsDigits(s) THEN [err |-> "nil", value |-> DecimalValue(s)]
    ELSE [err |-> "syntax", value |-> 0]

\* a Content-MD5 header that is the base64 of the 16-byte MD5 of data
Base64MD5(data) == <<"base64", data>>

\* isValidMD5: an absent Content-MD5 or the base64 of 16 bytes
isValidMD5(md5) == md5 = Empty \/ (Len(md5) = 2 /\ md5[1] = "base64")

\* the hex MD5 the driver compares with: the decoded Content-MD5, in hex
hexOfBase64(md5) == IF isValidMD5(md5) /\ md5 # Empty THEN MD5Hex(md5[2]) ELSE Empty

\* isMaxObjectSize: a numeric Content-Length above the limit; what it says of
\* a Content-Length that is no number is left open (nonNumericTooLarge)
isMaxObjectSize(size, nonNumericTooLarge) ==
    IF ParseInt(size).err = "nil" THEN ParseInt(size).value > MaxObjectSize
    ELSE nonNumericTooLarge

\* getRequestedRange: no Range header gives the (0, 0) of the whole object;
\* "bytes=S-E", "bytes=S-" and "bytes=-N" (an absent number is -1) give a
\* start and a length, which must lie in the object
getRequestedRange(header, size) ==
    IF header = Empty THEN [err |-> "nil", start |-> 0, length |-> 0]
    ELSE IF Len(header) # 3 \/ (header[2] < 0 /\ header[3] < 0)
    THEN [err |-> "InvalidRange", start |-> 0, length |-> 0]
    ELSE LET start  == IF header[2] >= 0 THEN header[2] ELSE size - header[3]
             length == IF header[2] < 0 THEN header[3]
                       ELSE IF header[3] < 0 THEN size - header[2]
                       ELSE header[3] - header[2] + 1
         IN  IF 0 <= start /\ length >= 1 /\ start + length <= size
             THEN [err |-> "nil", start |-> start, length |-> length]
             ELSE [err |-> "InvalidRange", start |-> 0, length |-> 0]

\* GetPartialObject: length bytes of the object from offset start
GetPartialObject(bucket, object, start, length) ==
    SubSeq(objectList(bucket)[object].data, start + 1, start + length)

\* sort.IsSorted over completedParts: no part number is less than the one
\* before it
IsSorted(parts) ==
    \A i \in 2..Len(parts) : ~(parts[i].PartNumber < parts[i - 1].PartNumber)

\* the partMap of the complete handler keyed by the position in the body
partMapByPosition(parts) == [n \in 1..Len(parts) |-> parts[n].ETag]

\* the partMap of the complete handler: the ETag of each part number, the
\* last one when a part number comes twice
partMapOf(parts) ==
    [n \in {parts[i].PartNumber : i \in 1..Len(parts)} |->
        parts[CHOOSE i \in 1..Len(parts) :
                 /\ parts[i].PartNumber = n
                 /\ \A j \in 1..Len(parts) : parts[j].PartNumber = n => j <= i].ETag]

----------------------------------------------------------------------------
(* The multipart coordinator of the driver *)

NoParts == [n \in {} |-> 0]

\* the part numbers of a set in ascending order
RECURSIVE Ascending(_)
Ascending(S) ==
    IF S = {} THEN << >>
    ELSE LET least == CHOOSE n \in S : \A m \in S : n <= m
         IN  <<least>> \o Ascending(S \ {least})

\* the payloads of the named parts one after the other
RECURSIVE Concat(_, _)
Concat(parts, numbers) ==
    IF numbers = << >> THEN << >>
    ELSE parts[Head(numbers)].data \o Concat(parts, Tail(numbers))

\* the ETag of an assembled object: the MD5 of the parts' MD5s and their count
MultipartETag(parts, numbers) ==
    <<"md5s", [i \in 1..Len(numbers) |-> parts[numbers[i]].etag], Len(numbers)>>

\* the upload is Active and was started for this bucket and key
IsActive(bucket, object, uploadID) ==
    /\ uploadID \in Range(UploadIDs)
    /\ uploads[uploadID].state = "Active"
    /\ uploads[uploadID].bucket = bucket
    /\ uploads[uploadID].object = object

FreeIDs == {i \in 1..Len(UploadIDs) : uploads[UploadIDs[i]].state = "Free"}

\* NewMultipartUpload: the next identifier that was never handed out
NewMultipartUpload(bucket, object) ==
    IF bucket \notin buckets
    THEN [err |-> "BucketNotFound", id |-> "", uploads |-> uploads]
    ELSE IF object \in DOMAIN objectList(bucket)
    THEN [err |-> "ObjectExists", id |-> "", uploads |-> uploads]
    ELSE LET id == UploadIDs[CHOOSE i \in FreeIDs : \A j \in FreeIDs : i <= j]
         IN  [err |-> "nil", id |-> id,
              uploads |-> [uploads EXCEPT ![id] =
                              [state |-> "Active", bucket |-> bucket,
                               object |-> object, parts |-> NoParts]]]

\* CreateObjectPart: the part replaces any part stored under its number
CreateObjectPart(bucket, object, uploadID, partID, expectedMD5Sum, data, streamed) ==
    IF ~IsActive(bucket, object, uploadID)
    THEN [err |-> "InvalidUploadID", etag |-> Empty, uploads |-> uploads]
    ELSE IF partID < 1
    THEN [err |-> "InvalidPart", etag |-> Empty, uploads |-> uploads]
    ELSE IF ~streamed
    THEN [err |-> "IOError", etag |-> Empty, uploads |-> uploads]
    ELSE IF expectedMD5Sum # Empty /\ expectedMD5Sum # MD5Hex(data)
    THEN [err |-> "BadDigest", etag |-> Empty, uploads |-> uploads]
    ELSE [err |-> "nil", etag |-> MD5Hex(data),
          uploads |-> [uploads EXCEPT ![uploadID].parts =
                          (partID :> [data |-> data, etag |-> MD5Hex(data)]) @@ @]]

\* ListObjectParts: the part numbers above the marker, ascending, at most
\* maxParts of them
ListObjectParts(bucket, object, uploadID, partNumberMarker, maxParts) ==
    IF ~IsActive(bucket, object, uploadID)
    THEN [err |-> "InvalidUploadID", parts |-> << >>]
    ELSE LET numbers == Ascending({n \in DOMAIN uploads[uploadID].parts :
                                      n > partNumberMarker})
         IN  [err |-> "nil",
              parts |-> SubSeq(numbers, 1, IF Len(numbers) < maxParts
                                           THEN Len(numbers) ELSE maxParts)]

\* CompleteMultipartUpload: every named part must be stored with the named
\* ETag; the object is the named parts joined in part-number order
CompleteMultipartUpload(bucket, object, uploadID, partMap) ==
    IF ~IsActive(bucket, object, uploadID)
    THEN [err |-> "InvalidUploadID", etag |-> Empty,
          uploads |-> uploads, objects |-> objects]
    ELSE IF \E n \in DOMAIN partMap :
               \/ n \notin DOMAIN uploads[uploadID].parts
               \/ uploads[uploadID].parts[n].etag # partMap[n]
    THEN [err |-> "InvalidPart", etag |-> Empty,
          uploads |-> uploads, objects |-> objects]
    ELSE IF object \in DOMAIN objectList(bucket)
    THEN [err |-> "ObjectExists", etag |-> Empty,
          uploads |-> uploads, objects |-> objects]
    ELSE LET parts   == uploads[uploadID].parts
             numbers == Ascending(DOMAIN partMap)
             data    == Concat(parts, numbers)
             etag    == MultipartETag(parts, numbers)
         IN  [err |-> "nil", etag |-> etag,
              uploads |-> [uploads EXCEPT ![uploadID] = [state |-> "Completed"]],
              objects |-> [objects EXCEPT ![bucket] =
                              (object :> [data |-> data, md5 |-> etag,
                                          size |-> Len(data)]) @@ @]]

\* AbortMultipartUpload
AbortMultipartUpload(bucket, object, uploadID) ==
    IF ~IsActive(bucket, object, uploadID)
    THEN [err |-> "InvalidUploadID", uploads |-> uploads]
    ELSE [err |-> "nil",
          uploads |-> [uploads EXCEPT ![uploadID] = [state |-> "Aborted"]]]

\* CreateObject of the driver: donut.PutObject with the Content-MD5 in hex
CreateObject(bucket, object, md5, data, streamed) ==
    IF putObjectCheck(bucket, object) # "nil"
    THEN [err |-> putObjectCheck(bucket, object), md5sum |-> Empty,
          index |-> objectList(bucket)]
    ELSE bucketPutObject(objectList(bucket), object, data, hexOfBase64(md5), streamed)

----------------------------------------------------------------------------
(* The object handlers of the API, one request served at a time *)

\* what a handler did for a request: the driver methods it called, the error
\* of the call its answer depends on, the responses it wrote, the ETag, byte
\* range and body it sent, and the upload identifier it called the driver
\* with or got from it
NoResponse(op) ==
    [op |-> op, calls |-> << >>, err |-> "none", writes |-> << >>,
     etag |-> Empty, id |-> "", range |-> <<0, 0>>, body |-> Empty]

\* isValidOp returned false: it wrote the denial, the handler returns
Denied(op) == [NoResponse(op) EXCEPT !.writes = <<"AccessDenied">>]

\* the switch of getObjectHandler and headObjectHandler on the driver's error
objectErrorCode(err) ==
    CASE err = "ObjectNotFound"    -> "NoSuchKey"
      [] err = "ObjectNameInvalid" -> "NoSuchKey"
      [] OTHER                     -> "InternalError"

\* getObjectHandler with no return after InvalidRange
getObjectResponseNoReturn(allowed, bucket, object, rangeHeader) ==
    LET metadata  == GetObjectMetadata(bucket, object)
        httpRange == getRequestedRange(rangeHeader, metadata.size)
        called    == [NoResponse("getObject") EXCEPT
                         !.calls = <<"GetObjectMetadata">>, !.err = metadata.err]
    IN  IF ~allowed THEN Denied("getObject")
        ELSE IF metadata.err # "nil"
        THEN [called EXCEPT !.writes = <<objectErrorCode(metadata.err)>>]
        ELSE IF httpRange.err # "nil" \/ (httpRange.start = 0 /\ httpRange.length = 0)
        THEN [called EXCEPT !.calls = @ \o <<"GetObject">>,
                            !.writes = IF httpRange.err # "nil"
                                       THEN <<"InvalidRange", "OK">> ELSE <<"OK">>,
                            !.body = GetObject(bucket, object).data]
        ELSE [called EXCEPT !.calls = @ \o <<"GetPartialObject">>,
                            !.writes = <<"PartialContent">>,
                            !.range = <<httpRange.start, httpRange.length>>,
                            !.body = GetPartialObject(bucket, object, httpRange.start,
                                                      httpRange.length)]

\* getObjectHandler
getObjectResponse(allowed, bucket, object, rangeHeader) ==
    LET metadata  == GetObjectMetadata(bucket, object)
        httpRange == getRequestedRange(rangeHeader, metadata.size)
        called    == [NoResponse("getObject") EXCEPT
                         !.calls = <<"GetObjectMetadata">>, !.err = metadata.err]
    IN  IF ~allowed THEN Denied("getObject")
        ELSE IF metadata.err # "nil"
        THEN [called EXCEPT !.writes = <<objectErrorCode(metadata.err)>>]
        ELSE IF httpRange.err # "nil"
        THEN [called EXCEPT !.writes = <<"InvalidRange">>]
        ELSE IF httpRange.start = 0 /\ httpRange.length = 0
        THEN [called EXCEPT !.calls = @ \o <<"GetObject">>,
                            !.writes = <<"OK">>,
                            !.body = GetObject(bucket, object).data]
        ELSE [called EXCEPT !.calls = @ \o <<"GetPartialObject">>,
                            !.writes = <<"PartialContent">>,
                            !.range = <<httpRange.start, httpRange.length>>,
                            !.body = GetPartialObject(bucket, object, httpRange.start,
                                                      httpRange.length)]

\* headObjectHandler
headObjectResponse(allowed, bucket, object) ==
    LET metadata == GetObjectMetadata(bucket, object)
        called   == [NoResponse("headObject") EXCEPT
                        !.calls = <<"GetObjectMetadata">>, !.err = metadata.err]
    IN  IF ~allowed THEN Denied("headObject")
        ELSE IF metadata.err = "nil"
        THEN [called EXCEPT !.writes = <<"OK">>, !.etag = metadata.md5]
        ELSE [called EXCEPT !.writes = <<objectErrorCode(metadata.err)>>]

\* the header checks of putObjectHandler and putObjectPartHandler without
\* the test of the Content-MD5
headerErrorNoDigest(md5, size, nonNumericTooLarge) ==
    IF size = Empty THEN "MissingContentLength"
    ELSE IF isMaxObjectSize(size, nonNumericTooLarge) THEN "EntityTooLarge"
    ELSE IF ParseInt(size).err # "nil" THEN "InvalidRequest"
    ELSE "nil"

\* the header checks of putObjectHandler and putObjectPartHandler: the error
\* written before the return, "nil" when the handler goes on
headerError(md5, size, nonNumericTooLarge) ==
    IF ~isValidMD5(md5) THEN "InvalidDigest"
    ELSE IF size = Empty THEN "MissingContentLength"
    ELSE IF isMaxObjectSize(size, nonNumericTooLarge) THEN "EntityTooLarge"
    ELSE IF ParseInt(size).err # "nil" THEN "InvalidRequest"
    ELSE "nil"

\* the switch of putObjectHandler on the error of CreateObject
putErrorCode(err) ==
    CASE err = "nil"            -> "OK"
      [] err = "ObjectExists"   -> "MethodNotAllowed"
      [] err = "BadDigest"      -> "BadDigest"
      [] err = "EntityTooLarge" -> "EntityTooLarge"
      [] err = "InvalidDigest"  -> "InvalidDigest"
      [] OTHER                  -> "InternalError"

\* putObjectHandler: the response and the object index it leaves
putObjectResponse(allowed, bucket, object, md5, size, data, streamed, nonNumericTooLarge) ==
    LET invalid == headerError(md5, size, nonNumericTooLarge)
        put     == CreateObject(bucket, object, md5, data, streamed)
    IN  IF ~allowed
        THEN [resp |-> Denied("putObject"), err |-> "none", md5sum |-> Empty,
              index |-> objectList(bucket)]
        ELSE IF invalid # "nil"
        THEN [resp |-> [NoResponse("putObject") EXCEPT !.writes = <<invalid>>],
              err |-> "none", md5sum |-> Empty, index |-> objectList(bucket)]
        ELSE [resp |-> [NoResponse("putObject") EXCEPT
                           !.calls = <<"CreateObject">>, !.err = put.err,
                           !.writes = <<putErrorCode(put.err)>>,
                           !.etag = put.md5sum],
              err |-> put.err, md5sum |-> put.md5sum, index |-> put.index]

\* newMultipartUploadHandler: the response and the upload table it leaves
newMultipartUploadResponse(allowed, isRequestUploads, bucket, object) ==
    LET new == NewMultipartUpload(bucket, object)
    IN  IF ~allowed
        THEN [resp |-> Denied("newMultipartUpload"), uploads |-> uploads]
        ELSE IF ~isRequestUploads
        THEN [resp |-> [NoResponse("newMultipartUpload") EXCEPT
                           !.writes = <<"MethodNotAllowed">>],
              uploads |-> uploads]
        ELSE [resp |-> [NoResponse("newMultipartUpload") EXCEPT
                           !.calls = <<"NewMultipartUpload">>, !.err = new.err,
                           !.writes = <<CASE new.err = "nil" -> "OK"
                                          [] new.err = "ObjectExists" -> "MethodNotAllowed"
                                          [] OTHER -> "InternalError">>,
                           !.id = new.id],
              uploads |-> new.uploads]

\* the switch of putObjectPartHandler on the error of CreateObjectPart
putPartErrorCode(err) ==
    CASE err = "nil"             -> "OK"
      [] err = "InvalidUploadID" -> "NoSuchUpload"
      [] err = "ObjectExists"    -> "MethodNotAllowed"
      [] err = "BadDigest"       -> "BadDigest"
      [] err = "EntityTooLarge"  -> "EntityTooLarge"
      [] err = "InvalidDigest"   -> "InvalidDigest"
      [] OTHER                   -> "InternalError"

\* putObjectPartHandler: a partNumber that is no integer is answered with
\* InvalidPart, and the handler goes on to the driver with part number 0
putObjectPartResponse(allowed, bucket, object, md5, size, uploadID, partIDString, data, streamed, nonNumericTooLarge) ==
    LET invalid == headerError(md5, size, nonNumericTooLarge)
        partID  == ParseInt(partIDString)
        part    == CreateObjectPart(bucket, object, uploadID, partID.value,
                                    hexOfBase64(md5), data, streamed)
    IN  IF ~allowed
        THEN [resp |-> Denied("putObjectPart"), uploads |-> uploads]
        ELSE IF invalid # "nil"
        THEN [resp |-> [NoResponse("putObjectPart") EXCEPT !.writes = <<invalid>>],
              uploads |-> uploads]
        ELSE [resp |-> [NoResponse("putObjectPart") EXCEPT
                           !.calls = <<"CreateObjectPart">>, !.err = part.err,
                           !.id = uploadID,
                           !.writes = (IF partID.err # "nil" THEN <<"InvalidPart">>
                                       ELSE << >>) \o <<putPartErrorCode(part.err)>>,
                           !.etag = part.etag],
              uploads |-> part.uploads]

\* the switch of the abort, list-parts and complete handlers that has no case
\* for InvalidUploadID
uploadErrorCodeNoCase(err, success) ==
    CASE err = "nil" -> success
      [] OTHER       -> "InternalError"

\* the switch of the abort, list-parts and complete handlers on the driver's
\* error
uploadErrorCode(err, success) ==
    CASE err = "nil"             -> success
      [] err = "InvalidUploadID" -> "NoSuchUpload"
      [] OTHER                   -> "InternalError"

\* abortMultipartUploadHandler
abortMultipartUploadResponse(allowed, bucket, object, uploadID) ==
    LET abort == AbortMultipartUpload(bucket, object, uploadID)
    IN  IF ~allowed
        THEN [resp |-> Denied("abortMultipartUpload"), uploads |-> uploads]
        ELSE [resp |-> [NoResponse("abortMultipartUpload") EXCEPT
                           !.calls = <<"AbortMultipartUpload">>, !.err = abort.err,
                           !.id = uploadID,
                           !.writes = <<uploadErrorCode(abort.err, "NoContent")>>],
              uploads |-> abort.uploads]

\* the default of the list-parts handler for a request without max-parts
maxPartsList == 1000

\* listObjectPartsHandler
listObjectPartsResponse(allowed, bucket, object, uploadID, maxParts) ==
    LET list == ListObjectParts(bucket, object, uploadID, 0,
                                IF maxParts = 0 THEN maxPartsList ELSE maxParts)
    IN  IF ~allowed THEN Denied("listObjectParts")
        ELSE [NoResponse("listObjectParts") EXCEPT
                 !.calls = <<"ListObjectParts">>, !.err = list.err,
                 !.id = uploadID,
                 !.writes = <<uploadErrorCode(list.err, "OK")>>,
                 !.body = list.parts]

\* completeMultipartUploadHandler without the test of the parts' order
completeMultipartUploadResponseNoOrder(allowed, decoded, bucket, object, uploadID, parts) ==
    LET complete == CompleteMultipartUpload(bucket, object, uploadID, partMapOf(parts))
        unchanged(r) == [resp |-> r, uploads |-> uploads, objects |-> objects]
    IN  IF ~allowed THEN unchanged(Denied("completeMultipartUpload"))
        ELSE IF ~decoded
        THEN unchanged([NoResponse("completeMultipartUpload") EXCEPT
                           !.writes = <<"InternalError">>])
        ELSE [resp |-> [NoResponse("completeMultipartUpload") EXCEPT
                           !.calls = <<"CompleteMultipartUpload">>,
                           !.err = complete.err, !.id = uploadID,
                           !.writes = <<uploadErrorCode(complete.err, "OK")>>,
                           !.etag = complete.etag],
              uploads |-> complete.uploads, objects |-> complete.objects]

\* completeMultipartUploadHandler: the response, the upload table and the
\* object index it leaves
completeMultipartUploadResponse(allowed, decoded, bucket, object, uploadID, parts) ==
    LET complete == CompleteMultipartUpload(bucket, object, uploadID, partMapOf(parts))
        unchanged(r) == [resp |-> r, uploads |-> uploads, objects |-> objects]
    IN  IF ~allowed THEN unchanged(Denied("completeMultipartUpload"))
        ELSE IF ~decoded
        THEN unchanged([NoResponse("completeMultipartUpload") EXCEPT
                           !.writes = <<"InternalError">>])
        ELSE IF ~IsSorted(parts)
        THEN unchanged([NoResponse("completeMultipartUpload") EXCEPT
                           !.writes = <<"InvalidPartOrder">>])
        ELSE [resp |-> [NoResponse("completeMultipartUpload") EXCEPT
                           !.calls = <<"CompleteMultipartUpload">>,
                           !.err = complete.err, !.id = uploadID,
                           !.writes = <<uploadErrorCode(complete.err, "OK")>>,
                           !.etag = complete.etag],
              uploads |-> complete.uploads, objects |-> complete.objects]

----------------------------------------------------------------------------
(* The requests served and the handlers as steps *)

ApiBucket == <<120>>

ApiKey == <<97>>

\* the bucket of a request: one that is made, and one that never is
ApiBuckets == {ApiBucket, <<121>>}

\* the Content-MD5 headers: none, the sum of the payload <<1>>, not base64
ContentMD5s == {Empty, Base64MD5(<<1>>), <<"garbage">>}

\* the Content-Length headers: none, "a", "2" and "9"
ContentLengths == {Empty, <<97>>, <<50>>, <<57>>}

\* the Range headers: none, not a range, "bytes=0-0", "bytes=1-",
\* "bytes=-1", "bytes=1-5" and "bytes=1-0"
RangeHeaders ==
    {Empty, <<"junk">>, <<"bytes", 0, 0>>, <<"bytes", 1, -1>>, <<"bytes", -1, 1>>,
     <<"bytes", 1, 5>>, <<"bytes", 1, 0>>}

\* the uploadId of a request: the identifiers handed out, and one that is not
RequestIDs == Range(UploadIDs) \cup {"u9"}

\* the partNumber of a request: "0", "1", "2" and "x"
PartNumbers == {<<48>>, <<49>>, <<50>>, <<120>>}

Part(n, data) == [PartNumber |-> n, ETag |-> MD5Hex(data)]

\* the decoded bodies of a complete request: parts 1 and 2 in order, part 1
\* or part 2 alone, out of order, part 1 twice, and with another ETag
CompleteBodies ==
    {<<Part(1, <<1>>), Part(2, <<2, 1>>)>>, <<Part(1, <<1>>)>>, <<Part(2, <<2, 1>>)>>,
     <<Part(2, <<2, 1>>), Part(1, <<1>>)>>, <<Part(1, <<1>>), Part(1, <<2, 1>>)>>,
     <<Part(1, <<2, 1>>), Part(2, <<2, 1>>)>>, <<Part(1, <<2, 1>>), Part(2, <<1>>)>>}

GetRequest ==
    [allowed |-> TRUE, bucket |-> ApiBucket, object |-> ApiKey, range |-> Empty]

\* the keys of the requests for whole objects
ObjectKeys == {ApiKey, <<98>>}

GetRequests ==
    {[GetRequest EXCEPT !.bucket = b, !.object = k, !.range = h] :
        b \in ApiBuckets, k \in ObjectKeys, h \in RangeHeaders}
    \cup {[GetRequest EXCEPT !.allowed = FALSE, !.range = h] : h \in {Empty, <<"junk">>}}

HeadRequests ==
    {[GetRequest EXCEPT !.allowed = a, !.bucket = b] : a \in BOOLEAN, b \in ApiBuckets}

PutRequest ==
    [allowed |-> TRUE, bucket |-> ApiBucket, object |-> ApiKey, md5 |-> Empty,
     size |-> <<50>>, data |-> <<1>>, streamed |-> TRUE, nonNumericTooLarge |-> FALSE]

PutRequests ==
    {[PutRequest EXCEPT !.data = d, !.md5 = m, !.bucket = b] :
        d \in Payloads, m \in {Empty, Base64MD5(<<1>>)}, b \in ApiBuckets}
    \cup {[PutRequest EXCEPT !.md5 = m, !.size = s] : m \in ContentMD5s, s \in ContentLengths}
    \cup {[PutRequest EXCEPT !.md5 = m, !.size = <<97>>, !.nonNumericTooLarge = TRUE] :
             m \in ContentMD5s}
    \cup {[PutRequest EXCEPT !.allowed = FALSE, !.md5 = m] : m \in ContentMD5s}
    \cup {[PutRequest EXCEPT !.streamed = FALSE]}

ObjectPutRequests ==
    PutRequests \cup {[PutRequest EXCEPT !.object = <<98>>, !.data = d] : d \in Payloads}

NewRequests ==
    [allowed : BOOLEAN, isRequestUploads : BOOLEAN, bucket : ApiBuckets,
     object : {ApiKey}]

PartRequest ==
    [allowed |-> TRUE, bucket |-> ApiBucket, object |-> ApiKey, md5 |-> Empty,
     size |-> <<50>>, uploadID |-> "u1", partNumber |-> <<49>>, data |-> <<1>>,
     streamed |-> TRUE, nonNumericTooLarge |-> FALSE]

PartRequests ==
    {[PartRequest EXCEPT !.uploadID = i, !.partNumber = n, !.data = <<2, 1>>] :
        i \in RequestIDs, n \in PartNumbers}
    \cup {[PartRequest EXCEPT !.uploadID = i] : i \in RequestIDs}
    \cup {[PartRequest EXCEPT !.md5 = m, !.size = s] : m \in ContentMD5s, s \in ContentLengths}
    \cup {[PartRequest EXCEPT !.md5 = m, !.size = <<97>>, !.nonNumericTooLarge = TRUE] :
             m \in ContentMD5s}
    \cup {[PartRequest EXCEPT !.md5 = Base64MD5(<<1>>), !.data = d] : d \in Payloads}
    \cup {[PartRequest EXCEPT !.allowed = FALSE, !.md5 = m] : m \in ContentMD5s}
    \cup {[PartRequest EXCEPT !.bucket = <<121>>], [PartRequest EXCEPT !.streamed = FALSE]}

UploadRequests ==
    [allowed : BOOLEAN, bucket : {ApiBucket}, object : {ApiKey}, uploadID : RequestIDs]
    \cup [allowed : {TRUE}, bucket : {<<121>>}, object : {ApiKey}, uploadID : {"u1"}]

ListPartsRequests ==
    [allowed : BOOLEAN, bucket : {ApiBucket}, object : {ApiKey}, uploadID : RequestIDs,
     maxParts : {0, 1}]

CompleteRequest ==
    [allowed |-> TRUE, decoded |-> TRUE, bucket |-> ApiBucket, object |-> ApiKey,
     uploadID |-> "u1", parts |-> <<Part(1, <<1>>)>>]

CompleteRequests ==
    {[CompleteRequest EXCEPT !.uploadID = i, !.parts = parts] :
        i \in RequestIDs, parts \in CompleteBodies}
    \cup {[CompleteRequest EXCEPT !.allowed = a, !.decoded = d, !.parts = parts] :
             a \in BOOLEAN, d \in BOOLEAN,
             parts \in {<<Part(1, <<1>>)>>, <<Part(2, <<2, 1>>), Part(1, <<1>>)>>}}
    \cup {[CompleteRequest EXCEPT !.bucket = <<121>>]}

getObjectHandler(r) ==
    /\ resp' = getObjectResponse(r.allowed, r.bucket, r.object, r.range)
    /\ UNCHANGED <<buckets, bucketMetadata, objects, req, acked, listReq, uploads>>

headObjectHandler(r) ==
    /\ resp' = headObjectResponse(r.allowed, r.bucket, r.object)
    /\ UNCHANGED <<buckets, bucketMetadata, objects, req, acked, listReq, uploads>>

putObjectHandler(r) ==
    /\ LET put == putObjectResponse(r.allowed, r.bucket, r.object, r.md5, r.size,
                                    r.data, r.streamed, r.nonNumericTooLarge)
       IN  /\ resp' = put.resp
           /\ objects' = [objects EXCEPT ![r.bucket] = put.index]
           /\ acked' = IF put.err = "nil"
                       THEN acked \cup {<<r.bucket, r.object, put.md5sum>>}
                       ELSE acked
    /\ UNCHANGED <<buckets, bucketMetadata, req, listReq, uploads>>

newMultipartUploadHandler(r) ==
    /\ FreeIDs # {}
    /\ LET new == newMultipartUploadResponse(r.allowed, r.isRequestUploads,
                                             r.bucket, r.object)
       IN  /\ resp' = new.resp
           /\ uploads' = new.uploads
    /\ UNCHANGED <<buckets, bucketMetadata, objects, req, acked, listReq>>

putObjectPartHandler(r) ==
    /\ LET part == putObjectPartResponse(r.allowed, r.bucket, r.object, r.md5, r.size,
                                         r.uploadID, r.partNumber, r.data, r.streamed,
                                         r.nonNumericTooLarge)
       IN  /\ resp' = part.resp
           /\ uploads' = part.uploads
    /\ UNCHANGED <<buckets, bucketMetadata, objects, req, acked, listReq>>

abortMultipartUploadHandler(r) ==
    /\ LET abort == abortMultipartUploadResponse(r.allowed, r.bucket, r.object,
                                                 r.uploadID)
       IN  /\ resp' = abort.resp
           /\ uploads' = abort.uploads
    /\ UNCHANGED <<buckets, bucketMetadata, objects, req, acked, listReq>>

listObjectPartsHandler(r) ==
    /\ resp' = listObjectPartsResponse(r.allowed, r.bucket, r.object, r.uploadID,
                                       r.maxParts)
    /\ UNCHANGED <<buckets, bucketMetadata, objects, req, acked, listReq, uploads>>

completeMultipartUploadHandler(r) ==
    /\ LET complete == completeMultipartUploadResponse(r.allowed, r.decoded, r.bucket,
                                                       r.object, r.uploadID, r.parts)
       IN  /\ resp' = complete.resp
           /\ uploads' = complete.uploads
           /\ objects' = complete.objects
    /\ UNCHANGED <<buckets, bucketMetadata, req, acked, listReq>>

\* the handlers of whole objects
ObjectNext ==
    \/ MakeBucket(ApiBucket, "private")
    \/ \E r \in GetRequests : getObjectHandler(r)
    \/ \E r \in HeadRequests : headObjectHandler(r)
    \/ \E r \in ObjectPutRequests : putObjectHandler(r)
    \/ \E bucket \in ApiBuckets : DeleteBucket(bucket)
    \/ \E bucket \in ApiBuckets : DeleteObject(bucket, ApiKey)

ObjectSpec == Init /\ [][ObjectNext]_vars

\* the handlers that write: the PUT of an object and the multipart handlers
MultipartNext ==
    \/ MakeBucket(ApiBucket, "private")
    \/ \E r \in PutRequests : putObjectHandler(r)
    \/ \E r \in NewRequests : newMultipartUploadHandler(r)
    \/ \E r \in PartRequests : putObjectPartHandler(r)
    \/ \E r \in UploadRequests : abortMultipartUploadHandler(r)
    \/ \E r \in ListPartsRequests : listObjectPartsHandler(r)
    \/ \E r \in CompleteRequests : completeMultipartUploadHandler(r)

MultipartSpec == Init /\ [][MultipartNext]_vars

----------------------------------------------------------------------------
(* ListObjects over a bucket of any content, called with any arguments *)

\* the object names of the listing universe: every non-blank name of one
\* or two bytes
ListNames == {n \in StringsUpTo(2) : ~Blank(n)}

\* the prefixes and markers tried: the empty string and every single byte
ListArgs == StringsUpTo(1)

\* the delimiters tried: none, a blank one, "/" and "/a"
Delimiters == {Empty, <<32>>, <<47>>, <<47, 97>>}

ListBucket == <<120>>

RECURSIVE SubsetsUpTo(_, _)
SubsetsUpTo(S, n) ==
    IF n = 0 THEN {{}}
    ELSE LET smaller == SubsetsUpTo(S, n - 1)
         IN  smaller \cup {T \cup {x} : T \in smaller, x \in S}

storedObject(data) == [data |-> data, md5 |-> MD5Hex(data), size |-> Len(data)]

ListInit ==
    /\ buckets = {ListBucket}
    /\ bucketMetadata = (ListBucket :> newBucketMetadata("private"))
    /\ \E names \in SubsetsUpTo(ListNames, MaxObjects) :
          /\ objects = [b \in BucketNames |->
                          IF b = ListBucket THEN [n \in names |-> storedObject(<<1>>)]
                          ELSE NoObjects]
          /\ acked = {<<ListBucket, n, MD5Hex(<<1>>)>> : n \in names}
    /\ req = [p \in Procs |-> IdleReq]
    /\ resp = [op |-> "none"]
    /\ \E prefix \in ListArgs, marker \in ListArgs,
          delimiter \in Delimiters, maxkeys \in 0..MaxKeysArg :
          listReq = [pc |-> "call", bucket |-> ListBucket, prefix |-> prefix,
                     marker |-> marker, delimiter |-> delimiter, maxkeys |-> maxkeys]
    /\ uploads = NoUploads

\* donut.ListObjects, with the object list in any iteration order
ListObjectsCall ==
    /\ listReq.pc = "call"
    /\ \E objectNames \in Orders(DOMAIN objects[listReq.bucket]) :
          listReq' = [pc |-> "done", bucket |-> listReq.bucket,
                      prefix |-> listReq.prefix, marker |-> listReq.marker,
                      delimiter |-> listReq.delimiter, maxkeys |-> listReq.maxkeys,
                      result |-> ListObjects(listReq.bucket, objectNames, listReq.prefix,
                                             listReq.marker, listReq.delimiter,
                                             listReq.maxkeys)]
    /\ UNCHANGED <<buckets, bucketMetadata, objects, req, acked, resp, uploads>>

ListNext == ListObjectsCall

ListSpec == ListInit /\ [][ListNext]_vars

----------------------------------------------------------------------------
(* A client that pages through a bucket with ListObjects *)

\* the pages after which a listing is given up: one more than a listing
\* of MaxObjects keys, one key a page, takes
MaxPages == MaxObjects + 2

\* the page sizes tried
PageSizes == 1..(MaxKeysArg + 1)

\* a bucket of any content and a listing about to start: no delimiter, the
\* marker empty, no key collected yet
PageInit ==
    /\ buckets = {ListBucket}
    /\ bucketMetadata = (ListBucket :> newBucketMetadata("private"))
    /\ \E names \in SubsetsUpTo(ListNames, MaxObjects) :
          /\ objects = [b \in BucketNames |->
                          IF b = ListBucket THEN [n \in names |-> storedObject(<<1>>)]
                          ELSE NoObjects]
          /\ acked = {<<ListBucket, n, MD5Hex(<<1>>)>> : n \in names}
    /\ req = [p \in Procs |-> IdleReq]
    /\ resp = [op |-> "none"]
    /\ \E prefix \in ListArgs, maxkeys \in PageSizes :
          listReq = [pc |-> "page", bucket |-> ListBucket, prefix |-> prefix,
                     marker |-> Empty, delimiter |-> Empty, maxkeys |-> maxkeys,
                     seen |-> << >>, pages |-> 0]
    /\ uploads = NoUploads

\* the marker of the next page: the last key of this one
nextMarker(marker, keys) == IF keys = << >> THEN marker ELSE keys[Len(keys)]

\* one page: donut.ListObjects with the marker of the page before; the
\* listing ends with the page that is not truncated
ListObjectsPage ==
    /\ listReq.pc = "page"
    /\ listReq.pages < MaxPages
    /\ \E objectNames \in Orders(DOMAIN objects[listReq.bucket]) :
          LET page == ListObjects(listReq.bucket, objectNames, listReq.prefix,
                                  listReq.marker, listReq.delimiter, listReq.maxkeys)
          IN  listReq' = [listReq EXCEPT
                             !.pc = IF page.isTruncated THEN "page" ELSE "done",
                             !.marker = nextMarker(listReq.marker, page.keys),
                             !.seen = listReq.seen \o page.keys,
                             !.pages = listReq.pages + 1]
    /\ UNCHANGED <<buckets, bucketMetadata, objects, req, acked, resp, uploads>>

PageNext == ListObjectsPage

PageSpec == PageInit /\ [][PageNext]_vars

----------------------------------------------------------------------------
(* Properties of ListObjects, stated on the call just served *)

ListDone == listReq.pc = "done" /\ listReq.result.err = "nil"

\* the names of the listed bucket
BucketKeys == DOMAIN objects[listReq.bucket]

\* what is left of a name once the prefix is taken off
Remainder(n) == SubSeq(n, Len(listReq.prefix) + 1, Len(n))

\* the names that pass the prefix test of the call
PassPrefix ==
    {n \in BucketKeys : Blank(listReq.prefix) \/ HasPrefix(n, listReq.prefix)}

\* the name as the filters after the prefix test see it
Seen(n) == IF Blank(listReq.prefix) THEN n ELSE Remainder(n)

\* the names that pass the prefix, delimiter and marker filters of the call
Survivors ==
    {n \in PassPrefix :
        /\ Blank(listReq.delimiter) \/ ~Contains(Seen(n), listReq.delimiter)
        /\ listReq.marker = Empty \/ StrGreater(Seen(n), listReq.marker)}

\* the maxkeys in force for the call
K == IF listReq.maxkeys > 0 THEN listReq.maxkeys ELSE 1000

EndsWith(s, d) == Len(s) >= Len(d) /\ SubSeq(s, Len(s) - Len(d) + 1, Len(s)) = d

StrictlyAscending(list) ==
    \A i \in 1..(Len(list) - 1) : StrLess(list[i], list[i + 1])

\* C6: with a non-empty marker, every returned key is strictly greater than
\* the marker in byte order, whatever the prefix and the delimiter
C6_MarkerStrict ==
    (ListDone /\ listReq.marker # Empty) =>
        \A i \in 1..Len(listReq.result.keys) :
            StrGreater(listReq.result.keys[i], listReq.marker)

\* C7: the call returns at most K keys, and exactly K when it is truncated,
\* K being maxkeys when positive and 1000 otherwise
C7_MaxKeys ==
    ListDone =>
        /\ Len(listReq.result.keys) <= K
        /\ listReq.result.isTruncated => Len(listReq.result.keys) = K

C7_Witness ==
    /\ ListDone
    /\ listReq.maxkeys = 1
    /\ Cardinality(BucketKeys) = 2
    /\ listReq.result.isTruncated
    /\ Len(listReq.result.keys) = 1

\* C8 as claimed: at least K survivors (exactly K included) give K keys and
\* truncated; fewer than K give every survivor and not truncated
C8_TruncatedAtMaxKeys ==
    ListDone =>
        /\ Cardinality(Survivors) >= K =>
              Len(listReq.result.keys) = K /\ listReq.result.isTruncated
        /\ Cardinality(Survivors) < K =>
              Len(listReq.result.keys) = Cardinality(Survivors)
              /\ ~listReq.result.isTruncated

\* C8 as amended: more than K survivors give K keys and truncated; at most K
\* survivors (exactly K included) give one key per survivor and not truncated
C8_TruncatedBeyondMaxKeys ==
    ListDone =>
        /\ Cardinality(Survivors) > K =>
              Len(listReq.result.keys) = K /\ listReq.result.isTruncated
        /\ Cardinality(Survivors) <= K =>
              Len(listReq.result.keys) = Cardinality(Survivors)
              /\ ~listReq.result.isTruncated

C8_Witness ==
    /\ ListDone
    /\ listReq.maxkeys = 1
    /\ listReq.marker # Empty
    /\ Cardinality(BucketKeys) = 2
    /\ Cardinality(Survivors) = 1
    /\ Len(listReq.result.keys) = 1
    /\ ~listReq.result.isTruncated

\* C9: with a non-blank delimiter, every returned key starts with the prefix,
\* every common prefix ends with the delimiter, and no string is both a key
\* and a common prefix
C9_PrefixDelimiterDisjoint ==
    (ListDone /\ ~Blank(listReq.delimiter)) =>
        /\ \A k \in Range(listReq.result.keys) : HasPrefix(k, listReq.prefix)
        /\ \A c \in Range(listReq.result.prefixes) : EndsWith(c, listReq.delimiter)
        /\ Range(listReq.result.keys) \cap Range(listReq.result.prefixes) = {}

C9_Witness ==
    /\ ListDone
    /\ ~Blank(listReq.delimiter)
    /\ ~Blank(listReq.prefix)
    /\ listReq.result.keys # << >>
    /\ listReq.result.prefixes # << >>

\* the names of the bucket of the form prefix + r
WithPrefix == {n \in BucketKeys : HasPrefix(n, listReq.prefix)}

\* prefix + r[0 : indexOf(r, d) + len(d)] for a name prefix + r
GroupOf(n) ==
    SubSeq(n, 1, Len(listReq.prefix)
                 + IndexOf(Remainder(n), listReq.delimiter) + Len(listReq.delimiter) - 1)

\* C10: with a non-blank delimiter d the common prefixes are the sorted,
\* duplicate-free set of prefix + r[0 : indexOf(r, d) + len(d)] over the names
\* prefix + r of the bucket whose r contains d, and the keys are names whose r
\* does not contain d; with a blank delimiter there are no common prefixes
C10_DelimiterGrouping ==
    ListDone =>
        IF ~Blank(listReq.delimiter)
        THEN /\ Range(listReq.result.prefixes) =
                  {GroupOf(n) : n \in {m \in WithPrefix :
                                          Contains(Remainder(m), listReq.delimiter)}}
             /\ StrictlyAscending(listReq.result.prefixes)
             /\ Range(listReq.result.keys) \subseteq
                  {m \in WithPrefix : ~Contains(Remainder(m), listReq.delimiter)}
        ELSE listReq.result.prefixes = << >>

\* C10 on the calls whose prefix is empty or not blank
C10_GroupingWithoutBlankPrefix ==
    (ListDone /\ (listReq.prefix = Empty \/ ~Blank(listReq.prefix))) =>
        C10_DelimiterGrouping

----------------------------------------------------------------------------
(* Properties of PutObject and of the object index *)

\* the (bucket, object) pairs some PutObject has returned success for
AckedKeys == {<<a[1], a[2]>> : a \in acked}

\* the keys of ListObjects(bucket, "", "", "", 1000), for every iteration order
DefaultListings(bucket) ==
    {ListObjects(bucket, objectNames, Empty, Empty, Empty, 1000) :
        objectNames \in Orders(DOMAIN objects[bucket])}

\* C1: once PutObject(b, k) has returned success with ETag e, ListObjects(b,
\* "", "", "", 1000) holds k, GetObjectMetadata(b, k) succeeds with etag e and
\* GetObject(b, k) succeeds
C1_ReadYourWrites ==
    \A a \in acked :
        /\ \A l \in DefaultListings(a[1]) : l.err = "nil" /\ a[2] \in Range(l.keys)
        /\ GetObjectMetadata(a[1], a[2]).err = "nil"
        /\ GetObjectMetadata(a[1], a[2]).md5 = a[3]
        /\ GetObject(a[1], a[2]).err = "nil"

\* C2: of two PutObject calls for the same bucket and key at most one returns
\* success, and the object stored is the one the successful call wrote
C2_AtMostOneSuccess ==
    \A p, q \in Procs :
        (/\ p # q
         /\ req[p].pc = "done" /\ req[q].pc = "done"
         /\ req[p].bucket = req[q].bucket /\ req[p].object = req[q].object
         /\ req[p].err = "nil")
        => /\ req[q].err # "nil"
           /\ GetObjectMetadata(req[p].bucket, req[p].object).md5 = req[p].md5sum

\* a step in which handler p enters PutObject and runs it up to the test of
\* the object list
EntersPutObject(p) == req[p].pc # "write" /\ req'[p] # req[p]

FailsPutObject(p) ==
    /\ req'[p] # req[p]
    /\ req'[p].pc = "done"
    /\ req'[p].err # "nil"

\* C4: a PutObject that returns an error (a digest mismatch, a failed stream)
\* leaves the object index as it was: the key is not listed and a later
\* PutObject of the key is not rejected with ObjectExists
C4_FailedPutLeavesNoEntry ==
    [][\A p \in Procs :
          FailsPutObject(p)
          => /\ objects' = objects
             /\ req[p].pc = "write" =>
                  (req[p].object \notin DOMAIN objects[req[p].bucket]
                   => /\ req[p].object \notin DOMAIN objects'[req[p].bucket]
                      /\ putObjectCheck(req[p].bucket, req[p].object)' = "nil")]_vars

C4_Witness ==
    \E p \in Procs :
        /\ req[p].pc = "done"
        /\ req[p].wrote
        /\ req[p].err \in {"BadDigest", "IOError"}
        /\ req[p].object \notin DOMAIN objects[req[p].bucket]

\* C5: an object that exists keeps its size, ETag and content in every later
\* state, and the DELETE handlers answer 501 and change no state
C5_ObjectsImmutable ==
    [][/\ \A b \in BucketNames : \A k \in DOMAIN objects[b] :
             k \in DOMAIN objects'[b] /\ objects'[b][k] = objects[b][k]
       /\ (resp' # resp /\ resp'.op \in {"DeleteBucket", "DeleteObject"})
             => /\ resp'.status = 501
                /\ UNCHANGED <<buckets, bucketMetadata, objects, req, acked>>]_vars

----------------------------------------------------------------------------
(* The bucket methods *)

\* a step of the driver method op, which leaves its response in resp
StepOf(op) == resp'.op = op /\ resp' # resp

\* the object names a missing bucket is asked for
ProbeNames == {<<97>>, <<98>>}

\* C11: every driver method that takes a bucket name (GetBucketMetadata,
\* SetBucketMetadata, ListObjects, PutObject, GetObject, GetObjectMetadata),
\* called with a non-blank name of a bucket that was never made, while the
\* reads of the store succeed, returns BucketNotFound and leaves the buckets,
\* their metadata and the object indices as they were
C11_MissingBucketNotFound ==
    [][/\ \A bucket \in BucketNames :
            ~Blank(bucket) /\ bucket \notin buckets =>
               /\ GetBucketMetadata(bucket, "ok").err = "BucketNotFound"
               /\ ListObjects(bucket, << >>, Empty, Empty, Empty, 0).err = "BucketNotFound"
               /\ \A object \in ProbeNames :
                     /\ putObjectCheck(bucket, object) = "BucketNotFound"
                     /\ GetObject(bucket, object).err = "BucketNotFound"
                     /\ GetObjectMetadata(bucket, object).err = "BucketNotFound"
       /\ StepOf("SetBucketMetadata") /\ resp'.io = "ok"
          /\ ~Blank(resp'.bucket) /\ resp'.bucket \notin buckets =>
             /\ resp'.err = "BucketNotFound"
             /\ UNCHANGED <<buckets, bucketMetadata, objects>>]_vars

\* C12: ListBuckets returns a nil error and a mapping in every state of the
\* store, whether or not the load of the buckets or the metadata read fails
C12_ListBucketsNeverFails ==
    resp.op = "ListBuckets" =>
       /\ resp.result.err = "nil"
       /\ "metadata" \in DOMAIN resp.result

\* C12, amended: ListBuckets returns the error of a failed load of the
\* buckets; when the load succeeds it returns a nil error with the metadata
\* of all buckets, or with an empty mapping when the metadata read fails (as
\* it does on a store in which no bucket was made); it changes no state
C12_ListBucketsFailsOnlyOnLoad ==
    [][StepOf("ListBuckets") =>
          /\ UNCHANGED <<buckets, bucketMetadata, objects>>
          /\ IF resp'.io = "loadFails"
             THEN resp'.result.err # "nil"
             ELSE /\ resp'.result.err = "nil"
                  /\ resp'.result.metadata =
                        IF resp'.io = "readFails" \/ buckets = {}
                        THEN NoBuckets ELSE bucketMetadata]_vars

\* a ListBuckets whose metadata read failed on a store that holds a bucket
\* was answered with the empty mapping
C12_Witness ==
    /\ resp.op = "ListBuckets" /\ resp.io = "readFails"
    /\ buckets # {}
    /\ resp.result = [err |-> "nil", metadata |-> NoBuckets]

\* C13: SetBucketMetadata on a bucket that exists changes nothing but the
\* "acl" entry of that bucket's metadata, which gets the input's "acl": the
\* other keys keep their values even when the input has them, and the other
\* buckets' metadata, the set of buckets and the object indices stay
C13_OnlyAclWritten ==
    [][StepOf("SetBucketMetadata") /\ resp'.bucket \in buckets =>
          /\ UNCHANGED <<buckets, objects>>
          /\ DOMAIN bucketMetadata' = DOMAIN bucketMetadata
          /\ \A b \in DOMAIN bucketMetadata :
                /\ DOMAIN bucketMetadata'[b] = DOMAIN bucketMetadata[b]
                /\ \A k \in DOMAIN bucketMetadata[b] :
                      b # resp'.bucket \/ k # "acl" =>
                         bucketMetadata'[b][k] = bucketMetadata[b][k]
          /\ resp'.err = "nil" =>
                bucketMetadata'[resp'.bucket]["acl"] = mapGet(resp'.metadata, "acl")]_vars

\* a SetBucketMetadata with another key beside the acl succeeded on one of
\* two buckets, one of which holds an object
C13_Witness ==
    /\ resp.op = "SetBucketMetadata" /\ resp.err = "nil"
    /\ resp.metadata = [acl |-> "private", created |-> "t9"]
    /\ bucketMetadata[resp.bucket] = [acl |-> "private", created |-> "t0"]
    /\ Cardinality(buckets) = 2
    /\ \E b \in buckets : b # resp.bucket /\ bucketMetadata[b]["acl"] = "public-read"
    /\ \E b \in buckets : DOMAIN objects[b] # {}

----------------------------------------------------------------------------
(* The multipart handlers *)

\* the store: the buckets, their metadata, the object indices and the uploads
store == <<buckets, bucketMetadata, objects, uploads>>

Last(seq) == seq[Len(seq)]

\* the part numbers of a body go down somewhere
OutOfOrder(parts) ==
    \E i \in 1..(Len(parts) - 1) : parts[i + 1].PartNumber < parts[i].PartNumber

\* C14: a complete request that passed the authorization gate and whose
\* decoded body lists the parts out of ascending PartNumber order is answered
\* with InvalidPartOrder alone, the driver is not called, no object is
\* created and the upload stays as it was
C14_UnsortedCompleteRejected ==
    [][resp'.op = "completeMultipartUpload" =>
          \A r \in CompleteRequests :
             r.allowed /\ r.decoded /\ OutOfOrder(r.parts)
             /\ completeMultipartUploadHandler(r) =>
                /\ resp'.writes = <<"InvalidPartOrder">>
                /\ resp'.calls = << >>
                /\ UNCHANGED store]_vars

\* an out-of-order complete was rejected while an upload holds parts 1 and 2,
\* and the complete that names them in order would succeed
C14_Witness ==
    /\ resp.op = "completeMultipartUpload"
    /\ resp.writes = <<"InvalidPartOrder">>
    /\ uploads["u1"].state = "Active"
    /\ DOMAIN uploads["u1"].parts = {1, 2}
    /\ \E parts \in CompleteBodies :
          /\ ~OutOfOrder(parts)
          /\ CompleteMultipartUpload(ApiBucket, ApiKey, "u1", partMapOf(parts)).err = "nil"

Terminal(id) == uploads[id].state \in {"Completed", "Aborted"}

\* the upload of the request is Completed or Aborted
OnTerminal(r) == r.uploadID \in Range(UploadIDs) /\ Terminal(r.uploadID)

\* a request with the identifier of a terminal upload left the store as it
\* was, and when it was passed to the driver the call failed with
\* InvalidUploadID and was answered NoSuchUpload
Refused ==
    /\ UNCHANGED store
    /\ resp'.writes # <<"OK">> /\ resp'.writes # <<"NoContent">>
    /\ resp'.calls # << >> =>
          /\ resp'.err = "InvalidUploadID"
          /\ Last(resp'.writes) = "NoSuchUpload"

NamesStoredParts(r) ==
    /\ IsActive(r.bucket, r.object, r.uploadID)
    /\ Len(r.parts) > 0
    /\ \A i \in 1..(Len(r.parts) - 1) : r.parts[i].PartNumber < r.parts[i + 1].PartNumber
    /\ {r.parts[i].PartNumber : i \in 1..Len(r.parts)} = DOMAIN uploads[r.uploadID].parts
    /\ \A i \in 1..Len(r.parts) :
          r.parts[i].ETag = uploads[r.uploadID].parts[r.parts[i].PartNumber].etag

\* the payloads of the parts of an upload in the order of a body
RECURSIVE Joined(_, _)
Joined(id, parts) ==
    IF parts = << >> THEN << >>
    ELSE uploads[id].parts[Head(parts).PartNumber].data \o Joined(id, Tail(parts))

RECURSIVE SumOfSizes(_, _)
SumOfSizes(id, parts) ==
    IF parts = << >> THEN 0
    ELSE Len(uploads[id].parts[Head(parts).PartNumber].data) + SumOfSizes(id, Tail(parts))

----------------------------------------------------------------------------
(* The handlers: error mapping, the gate, header checks, ranges *)

\* the error kinds of the driver
Taxonomy ==
    {"InvalidArgument", "BucketNotFound", "BucketExists", "ObjectNotFound",
     "ObjectExists", "ObjectNameInvalid", "BadDigest", "InvalidDigest", "InvalidRange",
     "EntityTooLarge", "MissingContentLength", "InvalidPart", "InvalidPartOrder",
     "InvalidUploadID", "NotImplemented", "InternalError"}

\* the response code each error kind is to be answered with
ErrorCodeOf ==
    [BucketNotFound |-> "NoSuchBucket", ObjectNotFound |-> "NoSuchKey",
     InvalidUploadID |-> "NoSuchUpload", ObjectExists |-> "MethodNotAllowed",
     BadDigest |-> "BadDigest", InvalidPart |-> "InvalidPart",
     EntityTooLarge |-> "EntityTooLarge"]

\* C17: in every handler a driver error of kind BucketNotFound,
\* ObjectNotFound, InvalidUploadID, ObjectExists, BadDigest, InvalidPart or
\* EntityTooLarge is answered with NoSuchBucket, NoSuchKey, NoSuchUpload,
\* MethodNotAllowed, BadDigest, InvalidPart or EntityTooLarge, and
\* InternalError is written only for an error outside the driver's kinds
C17_ErrorMappingFaithful ==
    "writes" \in DOMAIN resp =>
       /\ resp.err \in DOMAIN ErrorCodeOf => Last(resp.writes) = ErrorCodeOf[resp.err]
       /\ "InternalError" \in Range(resp.writes) => resp.err \notin Taxonomy

\* a denied request was answered with the denial alone: no driver call, no
\* change of the store
DeniedOnly ==
    /\ "writes" \in DOMAIN resp'
    /\ resp'.writes = <<"AccessDenied">>
    /\ resp'.calls = << >>
    /\ UNCHANGED store

\* C18: every handler, the two DELETE handlers among them, answers a request
\* that the authorization gate denies with the denial alone, calls no driver
\* method for it and changes no state
C18_AuthorizationGate ==
    [][/\ resp'.op = "getObject" =>
             \A r \in GetRequests : ~r.allowed /\ getObjectHandler(r) => DeniedOnly
       /\ resp'.op = "headObject" =>
             \A r \in HeadRequests : ~r.allowed /\ headObjectHandler(r) => DeniedOnly
       /\ resp'.op = "putObject" =>
             \A r \in ObjectPutRequests : ~r.allowed /\ putObjectHandler(r) => DeniedOnly
       /\ resp'.op = "newMultipartUpload" =>
             \A r \in NewRequests : ~r.allowed /\ newMultipartUploadHandler(r) => DeniedOnly
       /\ resp'.op = "putObjectPart" =>
             \A r \in PartRequests : ~r.allowed /\ putObjectPartHandler(r) => DeniedOnly
       /\ resp'.op = "abortMultipartUpload" =>
             \A r \in UploadRequests :
                ~r.allowed /\ abortMultipartUploadHandler(r) => DeniedOnly
       /\ resp'.op = "listObjectParts" =>
             \A r \in ListPartsRequests :
                ~r.allowed /\ listObjectPartsHandler(r) => DeniedOnly
       /\ resp'.op = "completeMultipartUpload" =>
             \A r \in CompleteRequests :
                ~r.allowed /\ completeMultipartUploadHandler(r) => DeniedOnly
       /\ resp'.op = "DeleteBucket" =>
             \A allowed \in BOOLEAN, bucket \in ApiBuckets :
                ~allowed /\ DeleteBucket(bucket) => DeniedOnly
       /\ resp'.op = "DeleteObject" =>
             \A allowed \in BOOLEAN, bucket \in ApiBuckets :
                ~allowed /\ DeleteObject(bucket, ApiKey) => DeniedOnly]_vars

\* a Content-MD5 that is not the base64 of an MD5
BadMD5(md5) == md5 # Empty /\ \A data \in Payloads : md5 # Base64MD5(data)

\* a Content-Length that is there and is no number
NotNumber(size) == size # Empty /\ \E i \in 1..Len(size) : size[i] \notin 48..57

\* the handler answered a request with bad headers: the expected error alone,
\* no driver call, the store and the object index as they were
Rejected(r) ==
    /\ resp'.calls = << >>
    /\ UNCHANGED store
    /\ BadMD5(r.md5) => resp'.writes = <<"InvalidDigest">>
    /\ ~BadMD5(r.md5) /\ r.size = Empty => resp'.writes = <<"MissingContentLength">>
    /\ ~BadMD5(r.md5) /\ r.size # Empty /\ ~NotNumber(r.size) =>
          resp'.writes = <<"EntityTooLarge">>
    /\ ~BadMD5(r.md5) /\ NotNumber(r.size) =>
          resp'.writes \in {<<"EntityTooLarge">>, <<"InvalidRequest">>}

\* the headers of the request are bad: the Content-MD5, or the Content-Length
\* is missing, no number, or above the limit
BadHeaders(r) ==
    \/ BadMD5(r.md5)
    \/ r.size = Empty
    \/ NotNumber(r.size)
    \/ DecimalValue(r.size) > MaxObjectSize

\* C19: a PUT of an object or an upload-part that passed the authorization
\* gate with an invalid Content-MD5 is answered InvalidDigest; else without
\* Content-Length, MissingContentLength; else with a Content-Length above the
\* limit, EntityTooLarge; else with a Content-Length that is no number, an
\* error; and in each case CreateObject or CreateObjectPart is not called and
\* the store is unchanged
C19_HeadersCheckedFirst ==
    [][/\ resp'.op = "putObject" =>
             \A r \in PutRequests :
                r.allowed /\ BadHeaders(r) /\ putObjectHandler(r) => Rejected(r)
       /\ resp'.op = "putObjectPart" =>
             \A r \in PartRequests :
                r.allowed /\ BadHeaders(r) /\ putObjectPartHandler(r) => Rejected(r)]_vars

\* an upload-part without Content-Length was rejected though its upload is
\* Active and its bucket holds no object under the key
C19_Witness ==
    /\ resp.op = "putObjectPart"
    /\ resp.writes = <<"MissingContentLength">>
    /\ uploads["u1"].state = "Active"
    /\ uploads["u1"].parts = NoParts
    /\ ApiKey \notin DOMAIN objects[ApiBucket]

\* C20: a GET whose GetObjectMetadata succeeded calls GetObject for the
\* whole object when there is no Range header; answers 206 and calls
\* GetPartialObject(start, length), with length >= 1 and start + length
\* within the size, when the Range header is valid; and answers InvalidRange
\* and calls neither when the Range header is malformed or unsatisfiable
C20_RangeDispatch ==
    [][resp'.op = "getObject" =>
          \A r \in GetRequests :
             r.allowed /\ GetObjectMetadata(r.bucket, r.object).err = "nil"
             /\ getObjectHandler(r) =>
                LET size      == GetObjectMetadata(r.bucket, r.object).size
                    data      == objects[r.bucket][r.object].data
                    httpRange == getRequestedRange(r.range, size)
                IN  IF r.range = Empty
                    THEN /\ resp'.calls = <<"GetObjectMetadata", "GetObject">>
                         /\ resp'.writes = <<"OK">>
                         /\ resp'.body = data
                    ELSE IF httpRange.err # "nil"
                    THEN /\ resp'.calls = <<"GetObjectMetadata">>
                         /\ resp'.writes = <<"InvalidRange">>
                         /\ resp'.body = Empty
                    ELSE /\ resp'.calls = <<"GetObjectMetadata", "GetPartialObject">>
                         /\ resp'.writes = <<"PartialContent">>
                         /\ resp'.range = <<httpRange.start, httpRange.length>>
                         /\ httpRange.length >= 1
                         /\ httpRange.start + httpRange.length <= size
                         /\ resp'.body = SubSeq(data, httpRange.start + 1,
                                                httpRange.start + httpRange.length)]_vars

\* a GET with "bytes=1-" of an object of two bytes was answered 206 with its
\* second byte
C20_Witness ==
    /\ resp.op = "getObject"
    /\ resp.calls = <<"GetObjectMetadata", "GetPartialObject">>
    /\ resp.writes = <<"PartialContent">>
    /\ resp.range = <<1, 1>>
    /\ resp.body = <<1>>
    /\ \E k \in ObjectKeys : k \in DOMAIN objects[ApiBucket]
                              /\ objects[ApiBucket][k].data = <<2, 1>>

----------------------------------------------------------------------------
(* One response per request *)

\* the errors a handler writes for a header, a query value or a body it found
\* invalid itself, before it called the driver
InputErrors ==
    {"InvalidDigest", "MissingContentLength", "EntityTooLarge", "InvalidRequest",
     "InvalidPart", "InvalidPartOrder"}

\* the driver methods called when the handler wrote its first response: none
\* for an invalid header, query value or body; the metadata lookup alone for
\* an invalid range, which is tested against the object's size
CallsBefore(code) ==
    IF code \in InputErrors THEN {<< >>}
    ELSE IF code = "InvalidRange" THEN {<<"GetObjectMetadata">>}
    ELSE {resp.calls}

\* C21: every handler writes at most one response for a request; a handler
\* that wrote an error for an invalid input called no driver method after it;
\* and no part is stored under the number 0, so an upload-part whose
\* partNumber is no integer is answered InvalidPart alone, without
\* CreateObjectPart
C21_SingleResponse ==
    /\ "writes" \in DOMAIN resp =>
          /\ Len(resp.writes) <= 1
          /\ resp.writes # << >> => resp.calls \in CallsBefore(resp.writes[1])
    /\ \A id \in Range(UploadIDs) :
          "parts" \in DOMAIN uploads[id] => 0 \notin DOMAIN uploads[id].parts

----------------------------------------------------------------------------
(* Paging through a bucket *)

\* the keys of the bucket that start with the prefix of the listing
Matching == {n \in DOMAIN objects[listReq.bucket] : HasPrefix(n, listReq.prefix)}

\* the keys of a set in ascending byte order
RECURSIVE Sorted(_)
Sorted(S) ==
    IF S = {} THEN << >>
    ELSE LET least == CHOOSE x \in S : \A y \in S \ {x} : StrLess(x, y)
         IN  <<least>> \o Sorted(S \ {least})

\* the pages a listing of n keys takes, k keys a page: the full pages, and
\* the one that is not truncated
PagesFor(n, k) == (n \div k) + 1

\* C22: paging through an unmodified bucket with the last key of each page
\* as the next marker, K >= 1 keys a page and no delimiter, ends within the
\* pages that the matching keys fill, and the pages together hold every key
\* of the bucket that starts with the prefix, once each, ascending
C22_PaginationComplete ==
    /\ listReq.pages <= PagesFor(Cardinality(Matching), listReq.maxkeys)
    /\ listReq.pc = "done" => listReq.seen = Sorted(Matching)

----------------------------------------------------------------------------
(* Soundness of a listing *)

\* C23: the keys a ListObjects call returns, whatever its prefix and its
\* delimiter, whitespace-only ones among them, are names of objects of the
\* bucket, without duplicates and in ascending byte order
C23_ListingSound ==
    ListDone =>
        /\ \A i \in 1..Len(listReq.result.keys) : listReq.result.keys[i] \in BucketKeys
        /\ StrictlyAscending(listReq.result.keys)

====
